---- MODULE Spec2Model ----
(***************************************************************************)
(* Climate analysis dashboard: the metrics computation layer.             *)
(*                                                                         *)
(* A monthly rainfall table is a chronological sequence of rows            *)
(* [year, month, rainfall_mm].  Real numbers are exact rationals           *)
(* [num, den] with den > 0; NaN is the rational 0/0.  Percentiles are      *)
(* carried as rationals with denominator 100 (linear interpolation).       *)
(***************************************************************************)
EXTENDS Integers, Sequences, FiniteSets, TLC

\* Bounds of the model: longest free part of a series, largest rainfall value.
MaxLen == 3
MaxVal == 2

\* start_year default of the series loader.
FirstYear == 2007

VARIABLES
    rainfall_data,        \* the caller's table: rows [year, month, rainfall_mm]
    columns,              \* the columns the caller's table carries
    season,               \* the table's season column, <<>> while it has none
    pc,                   \* position of the running call
    raised,               \* exception that ended the call, "none" otherwise
    result,               \* value returned by the call
    idx,                  \* position of the for loop in the table
    drought_threshold,    \* calculate_drought_risk locals
    consecutive_dry,
    max_consecutive,
    dry_spells,
    binary_series,        \* max_consecutive_ones argument and locals
    ones_max_consecutive,
    current_consecutive,
    month,                \* calculate_trigger_levels loop variable
    monthly_triggers,     \* calculate_trigger_levels: triggers of months 1..month-1
    trigger_levels,       \* simulate_payouts arguments and local
    payout_structure,
    payouts,
    call_no,              \* 1 during the caller's first call, 2 during the repeat
    first_result,         \* what the first call returned and raised
    first_raised,
    df,                   \* temperature table: rows [year, month, day, T2M, ...]
    df_freq,              \* df.index.freq
    df_season,            \* season column of df, <<>> while it has none
    session_state,        \* st.session_state: password_correct and password
    secrets,              \* st.secrets
    run_pc,               \* position of the app.py script run
    text_input_shown,     \* is the password text_input on the page
    check_password_result, \* what check_password returned in this run
    runs                  \* script runs of the session so far

tableVars   == <<rainfall_data, columns, season>>
callVars    == <<pc, raised, result, idx>>
droughtVars == <<drought_threshold, consecutive_dry, max_consecutive, dry_spells>>
onesVars    == <<binary_series, ones_max_consecutive, current_consecutive>>
triggerVars == <<month, monthly_triggers>>
payoutVars  == <<trigger_levels, payout_structure, payouts>>
insVars     == <<triggerVars, payoutVars>>
twiceVars   == <<call_no, first_result, first_raised>>
tempVars    == <<df, df_freq, df_season>>
gateVars    == <<session_state, secrets, run_pc, text_input_shown,
                 check_password_result, runs>>
auxVars     == <<twiceVars, tempVars, gateVars>>

vars == <<tableVars, callVars, droughtVars, onesVars, insVars, auxVars>>

----------------------------------------------------------------------------
(* Numbers *)

Rat(n, d) == [num |-> n, den |-> d]
NaN == Rat(0, 0)
IsNaN(x) == x.den = 0

\* IEEE comparisons: every comparison with NaN is false.
Lt(a, b) == ~IsNaN(a) /\ ~IsNaN(b) /\ a.num * b.den < b.num * a.den
Le(a, b) == ~IsNaN(a) /\ ~IsNaN(b) /\ a.num * b.den <= b.num * a.den
Eq(a, b) == ~IsNaN(a) /\ ~IsNaN(b) /\ a.num * b.den = b.num * a.den

RECURSIVE SumSeq(_)
SumSeq(s) == IF s = <<>> THEN 0 ELSE Head(s) + SumSeq(Tail(s))

MaxOf(a, b) == IF a >= b THEN a ELSE b

RECURSIVE Insert(_, _)
Insert(x, s) ==
    IF s = <<>> THEN <<x>>
    ELSE IF x <= Head(s) THEN <<x>> \o s
    ELSE <<Head(s)>> \o Insert(x, Tail(s))

RECURSIVE Sort(_)
Sort(s) == IF s = <<>> THEN <<>> ELSE Insert(Head(s), Sort(Tail(s)))

\* Series.mean(): NaN on an empty series.
Mean(s) == Rat(SumSeq(s), Len(s))

\* Series.max() / Series.min(): NaN on an empty series.
SeriesMax(s) ==
    IF s = <<>> THEN NaN
    ELSE Rat(CHOOSE x \in {s[k] : k \in 1..Len(s)} :
                 \A k \in 1..Len(s) : s[k] <= x, 1)
SeriesMin(s) ==
    IF s = <<>> THEN NaN
    ELSE Rat(CHOOSE x \in {s[k] : k \in 1..Len(s)} :
                 \A k \in 1..Len(s) : x <= s[k], 1)

----------------------------------------------------------------------------
(* The table *)

Row(i, v) == [year |-> FirstYear + (i \div 12), month |-> (i % 12) + 1,
              rainfall_mm |-> v]

\* A table of consecutive months from January of the first year.
MkSeries(vals) == [k \in 1..Len(vals) |-> Row(k - 1, vals[k])]

FreeVals == UNION {[1..n -> 0..MaxVal] : n \in 0..MaxLen}

\* A full first year of one value followed by a free part.
FullYear(c) == [k \in 1..12 |-> c]

\* Two years alternating 100 mm and 0 mm, either value first.
Alternating(first) == [k \in 1..24 |-> IF k % 2 = 1 THEN first ELSE 100 - first]

SeriesInputs ==
    {MkSeries(v) : v \in FreeVals}
    \cup {MkSeries(FullYear(c) \o v) : c \in 0..MaxVal, v \in FreeVals}
    \cup {MkSeries(Alternating(f)) : f \in {0, 100}}

\* rainfall_data['rainfall_mm']
Values(data) == [k \in 1..Len(data) |-> data[k].rainfall_mm]

----------------------------------------------------------------------------
(* climate_metrics.calculate_drought_risk *)

\* monthly_mean * 0.6
DroughtThreshold(data) ==
    Rat(3 * SumSeq(Values(data)), 5 * Len(data))

\* Mutants of the loop body: a spell recorded at every non-dry month; the run
\* length not reset at a non-dry month.
DroughtBodyNoGuard(value, st) ==
    IF Lt(Rat(value, 1), st.threshold)
    THEN [st EXCEPT !.consecutive_dry = @ + 1]
    ELSE [st EXCEPT !.max_consecutive = MaxOf(@, st.consecutive_dry),
                    !.dry_spells = Append(@, st.consecutive_dry),
                    !.consecutive_dry = 0]

DroughtBodyNoReset(value, st) ==
    IF Lt(Rat(value, 1), st.threshold)
    THEN [st EXCEPT !.consecutive_dry = @ + 1]
    ELSE [st EXCEPT !.max_consecutive = MaxOf(@, st.consecutive_dry),
                    !.dry_spells = IF st.consecutive_dry > 0
                                   THEN Append(@, st.consecutive_dry) ELSE @]

\* Two more mutants of the loop body: the maximum also raised while a run is
\* in progress; a month at the threshold taken for dry.
DroughtBodyMaxInDry(value, st) ==
    IF Lt(Rat(value, 1), st.threshold)
    THEN [st EXCEPT !.consecutive_dry = @ + 1,
                    !.max_consecutive = MaxOf(@, st.consecutive_dry + 1)]
    ELSE [st EXCEPT !.max_consecutive = MaxOf(@, st.consecutive_dry),
                    !.dry_spells = IF st.consecutive_dry > 0
                                   THEN Append(@, st.consecutive_dry) ELSE @,
                    !.consecutive_dry = 0]

DroughtBodyNonStrict(value, st) ==
    IF Le(Rat(value, 1), st.threshold)
    THEN [st EXCEPT !.consecutive_dry = @ + 1]
    ELSE [st EXCEPT !.max_consecutive = MaxOf(@, st.consecutive_dry),
                    !.dry_spells = IF st.consecutive_dry > 0
                                   THEN Append(@, st.consecutive_dry) ELSE @,
                    !.consecutive_dry = 0]

\* One iteration of the for loop over the values.
DroughtBody(value, st) ==
    IF Lt(Rat(value, 1), st.threshold)
    THEN [st EXCEPT !.consecutive_dry = @ + 1]
    ELSE [st EXCEPT !.max_consecutive = MaxOf(@, st.consecutive_dry),
                    !.dry_spells = IF st.consecutive_dry > 0
                                   THEN Append(@, st.consecutive_dry) ELSE @,
                    !.consecutive_dry = 0]

\* Mutant: the mean taken of the recorded spells even when there are none.
DroughtResultMeanOfNone(mc, spells, n) ==
    [fn |-> "calculate_drought_risk",
     max_consecutive_dry |-> mc,
     avg_dry_spell |-> Rat(SumSeq(spells), Len(spells)),
     dry_spell_frequency |-> Rat(Len(spells) * 12, n)]

\* The returned mapping (len(rainfall_data) > 0).
DroughtResult(mc, spells, n) ==
    [fn |-> "calculate_drought_risk",
     max_consecutive_dry |-> mc,
     avg_dry_spell |-> IF spells # <<>> THEN Rat(SumSeq(spells), Len(spells))
                       ELSE Rat(0, 1),
     dry_spell_frequency |-> Rat(Len(spells) * 12, n)]

calculate_drought_risk_begin ==
    /\ pc = "idle"
    /\ pc' = "drought_loop"
    /\ idx' = 1
    /\ drought_threshold' = DroughtThreshold(rainfall_data)
    /\ consecutive_dry' = 0
    /\ max_consecutive' = 0
    /\ dry_spells' = <<>>
    /\ UNCHANGED <<auxVars, tableVars, raised, result, onesVars, insVars>>

calculate_drought_risk_iter ==
    /\ pc = "drought_loop"
    /\ idx <= Len(rainfall_data)
    /\ LET st == DroughtBody(rainfall_data[idx].rainfall_mm,
                             [threshold |-> drought_threshold,
                              consecutive_dry |-> consecutive_dry,
                              max_consecutive |-> max_consecutive,
                              dry_spells |-> dry_spells])
       IN /\ consecutive_dry' = st.consecutive_dry
          /\ max_consecutive' = st.max_consecutive
          /\ dry_spells' = st.dry_spells
    /\ idx' = idx + 1
    /\ UNCHANGED <<auxVars, tableVars, pc, raised, result, drought_threshold, onesVars, insVars>>

\* len(dry_spells) / len(rainfall_data) divides two ints: 0 / 0 raises.
calculate_drought_risk_return ==
    /\ pc = "drought_loop"
    /\ idx > Len(rainfall_data)
    /\ pc' = "done"
    /\ IF Len(rainfall_data) = 0
       THEN /\ raised' = "ZeroDivisionError"
            /\ result' = [fn |-> "calculate_drought_risk"]
       ELSE /\ raised' = "none"
            /\ result' = DroughtResult(max_consecutive, dry_spells,
                                       Len(rainfall_data))
    /\ UNCHANGED <<auxVars, tableVars, idx, droughtVars, onesVars, insVars>>

----------------------------------------------------------------------------
(* numpy.percentile, linear interpolation, on a non-empty sequence *)

\* Mutant: the values interpolated in the order of the table, unsorted.
PercentileUnsorted(s, p) ==
    LET n   == Len(s)
        h   == (n - 1) * p
        lo  == (h \div 100) + 1
        fr  == h % 100
    IN Rat(100 * s[lo] + (IF fr = 0 THEN 0 ELSE fr * (s[lo + 1] - s[lo])),
           100)

Percentile(s, p) ==
    LET n   == Len(s)
        srt == Sort(s)
        h   == (n - 1) * p
        lo  == (h \div 100) + 1
        fr  == h % 100
    IN Rat(100 * srt[lo] + (IF fr = 0 THEN 0 ELSE fr * (srt[lo + 1] - srt[lo])),
           100)

----------------------------------------------------------------------------
(* insurance_utils.calculate_consecutive_dry_months, max_consecutive_ones *)

\* (rainfall_data['rainfall_mm'] < threshold).astype(int)
DryMonths(data, threshold_percentile) ==
    LET threshold == Percentile(Values(data), threshold_percentile)
    IN [k \in 1..Len(data) |->
            IF Lt(Rat(data[k].rainfall_mm, 1), threshold) THEN 1 ELSE 0]

\* Mutant of the loop body: the maximum taken only when a run breaks.
OnesBodyMaxOnBreak(value, st) ==
    IF value = 1
    THEN [st EXCEPT !.current_consecutive = @ + 1]
    ELSE [st EXCEPT !.max_consecutive = MaxOf(@, st.current_consecutive),
                    !.current_consecutive = 0]

\* Mutant of the loop body: the run length kept when the run breaks.
OnesBodyNoReset(value, st) ==
    IF value = 1
    THEN [st EXCEPT !.current_consecutive = @ + 1,
                    !.max_consecutive = MaxOf(@, st.current_consecutive + 1)]
    ELSE st

\* One iteration of the for loop over the binary series.
OnesBody(value, st) ==
    IF value = 1
    THEN [st EXCEPT !.current_consecutive = @ + 1,
                    !.max_consecutive = MaxOf(@, st.current_consecutive + 1)]
    ELSE [st EXCEPT !.current_consecutive = 0]

\* np.percentile raises IndexError on an empty array.
calculate_consecutive_dry_months_begin ==
    /\ pc = "idle"
    /\ IF Len(rainfall_data) = 0
       THEN /\ pc' = "done"
            /\ raised' = "IndexError"
            /\ result' = [fn |-> "calculate_consecutive_dry_months"]
            /\ UNCHANGED <<idx, onesVars, insVars>>
       ELSE /\ pc' = "ones_loop"
            /\ binary_series' = DryMonths(rainfall_data, 25)
            /\ idx' = 1
            /\ ones_max_consecutive' = 0
            /\ current_consecutive' = 0
            /\ UNCHANGED <<raised, result>>
    /\ UNCHANGED <<auxVars, tableVars, droughtVars, insVars>>

max_consecutive_ones_iter ==
    /\ pc = "ones_loop"
    /\ idx <= Len(binary_series)
    /\ LET st == OnesBody(binary_series[idx],
                          [max_consecutive |-> ones_max_consecutive,
                           current_consecutive |-> current_consecutive])
       IN /\ ones_max_consecutive' = st.max_consecutive
          /\ current_consecutive' = st.current_consecutive
    /\ idx' = idx + 1
    /\ UNCHANGED <<auxVars, tableVars, pc, raised, result, binary_series, droughtVars, insVars>>

max_consecutive_ones_return ==
    /\ pc = "ones_loop"
    /\ idx > Len(binary_series)
    /\ pc' = "done"
    /\ raised' = "none"
    /\ result' = [fn |-> "calculate_consecutive_dry_months",
                  max_consecutive_dry_months |-> ones_max_consecutive]
    /\ UNCHANGED <<auxVars, tableVars, idx, droughtVars, onesVars, insVars>>

----------------------------------------------------------------------------
(* rainfall_analysis.get_summary_statistics *)

Seasons == {"Summer", "Autumn", "Winter", "Spring"}

\* pd.cut(month, bins=[0,3,6,9,12], labels=[Summer, Autumn, Winter, Spring])
SeasonBin(m) ==
    IF m <= 3 THEN "Summer"
    ELSE IF m <= 6 THEN "Autumn"
    ELSE IF m <= 9 THEN "Winter"
    ELSE "Spring"

\* rainfall_data[rainfall_data.index.month in months]['rainfall_mm'], in order.
RECURSIVE MonthValues(_, _)
MonthValues(data, months) ==
    IF data = <<>> THEN <<>>
    ELSE (IF Head(data).month \in months THEN <<Head(data).rainfall_mm>>
          ELSE <<>>)
         \o MonthValues(Tail(data), months)

\* Mutant: the months labelled by the calendar seasons (December to February
\* Summer, and so on) instead of the four bins.
SeasonColumnCalendar(data) ==
    [k \in 1..Len(data) |->
        IF data[k].month \in {12, 1, 2} THEN "Summer"
        ELSE IF data[k].month \in {3, 4, 5} THEN "Autumn"
        ELSE IF data[k].month \in {6, 7, 8} THEN "Winter"
        ELSE "Spring"]

\* monthly_df['season'] = pd.cut(monthly_df.index.month, ...)
SeasonColumn(data) == [k \in 1..Len(data) |-> SeasonBin(data[k].month)]

\* monthly_df.groupby('season')['rainfall_mm']: the values of the rows whose
\* season column holds s, in order.
RECURSIVE SeasonGroup(_, _, _)
SeasonGroup(data, col, s) ==
    IF data = <<>> THEN <<>>
    ELSE (IF Head(col) = s THEN <<Head(data).rainfall_mm>> ELSE <<>>)
         \o SeasonGroup(Tail(data), Tail(col), s)

\* groupby('season').mean(): a season without rows has the mean NaN.
SeasonalAvg(data) ==
    [s \in Seasons |-> Mean(SeasonGroup(data, SeasonColumn(data), s))]

\* Mutant: the largest value reported as the average.
SummaryStatsAvgIsMax(data) ==
    [fn |-> "get_summary_statistics",
     avg_monthly |-> SeriesMax(Values(data)),
     max_monthly |-> SeriesMax(Values(data)),
     min_monthly |-> SeriesMin(Values(data)),
     total_years |-> Cardinality({data[k].year : k \in 1..Len(data)}),
     seasonal_avg |-> SeasonalAvg(data)]

SummaryStats(data) ==
    [fn |-> "get_summary_statistics",
     avg_monthly |-> Mean(Values(data)),
     max_monthly |-> SeriesMax(Values(data)),
     min_monthly |-> SeriesMin(Values(data)),
     total_years |-> Cardinality({data[k].year : k \in 1..Len(data)}),
     seasonal_avg |-> SeasonalAvg(data)]

\* The season column is assigned on the caller's table.
get_summary_statistics ==
    /\ pc = "idle"
    /\ pc' = "done"
    /\ raised' = "none"
    /\ result' = SummaryStats(rainfall_data)
    /\ columns' = columns \cup {"season"}
    /\ season' = SeasonColumn(rainfall_data)
    /\ UNCHANGED <<rainfall_data, idx, droughtVars, onesVars, insVars, auxVars>>

----------------------------------------------------------------------------

Init ==
    /\ rainfall_data \in SeriesInputs
    /\ columns = {"rainfall_mm"}
    /\ season = <<>>
    /\ pc = "idle"
    /\ raised = "none"
    /\ result = [fn |-> "none"]
    /\ idx = 0
    /\ drought_threshold = NaN
    /\ consecutive_dry = 0
    /\ max_consecutive = 0
    /\ dry_spells = <<>>
    /\ binary_series = <<>>
    /\ ones_max_consecutive = 0
    /\ current_consecutive = 0
    /\ month = 0
    /\ monthly_triggers = <<>>
    /\ trigger_levels = <<>>
    /\ payout_structure = [severe |-> 0, moderate |-> 0, mild |-> 0]
    /\ payouts = <<>>
    /\ call_no = 1
    /\ first_result = [fn |-> "none"]
    /\ first_raised = "none"
    /\ df = <<>>
    /\ df_freq = "None"
    /\ df_season = <<>>
    /\ session_state = [password_correct |-> "absent", password |-> "absent"]
    /\ secrets = [password |-> "alpha"]
    /\ run_pc = "new"
    /\ text_input_shown = FALSE
    /\ check_password_result = "none"
    /\ runs = 0

Next ==
    \/ calculate_drought_risk_begin
    \/ calculate_drought_risk_iter
    \/ calculate_drought_risk_return
    \/ calculate_consecutive_dry_months_begin
    \/ max_consecutive_ones_iter
    \/ max_consecutive_ones_return
    \/ get_summary_statistics

Spec == Init /\ [][Next]_vars

----------------------------------------------------------------------------
(* insurance_utils.calculate_trigger_levels *)

\* The default percentiles=[10, 25, 50, 75, 90] of one month's values.
Triggers(month_data) ==
    [p10 |-> Percentile(month_data, 10),
     p25 |-> Percentile(month_data, 25),
     p50 |-> Percentile(month_data, 50),
     p75 |-> Percentile(month_data, 75),
     p90 |-> Percentile(month_data, 90)]

calculate_trigger_levels_begin ==
    /\ pc = "idle"
    /\ pc' = "trigger_loop"
    /\ month' = 1
    /\ monthly_triggers' = <<>>
    /\ UNCHANGED <<auxVars, tableVars, raised, result, idx, droughtVars, onesVars,
                   payoutVars>>

\* One month of the loop; np.percentile raises IndexError on an empty array.
calculate_trigger_levels_iter ==
    /\ pc = "trigger_loop"
    /\ month <= 12
    /\ LET month_data == MonthValues(rainfall_data, {month})
       IN IF month_data = <<>>
          THEN /\ pc' = "done"
               /\ raised' = "IndexError"
               /\ result' = [fn |-> "calculate_trigger_levels"]
               /\ UNCHANGED triggerVars
          ELSE /\ monthly_triggers' = Append(monthly_triggers,
                                             Triggers(month_data))
               /\ month' = month + 1
               /\ UNCHANGED <<pc, raised, result>>
    /\ UNCHANGED <<auxVars, tableVars, idx, droughtVars, onesVars, payoutVars>>

calculate_trigger_levels_return ==
    /\ pc = "trigger_loop"
    /\ month > 12
    /\ pc' = "done"
    /\ raised' = "none"
    /\ result' = [fn |-> "calculate_trigger_levels",
                  monthly_triggers |-> monthly_triggers]
    /\ UNCHANGED <<auxVars, tableVars, idx, droughtVars, onesVars, insVars>>

----------------------------------------------------------------------------
(* insurance_utils.simulate_payouts *)

\* One trigger level for every month and every percentile.
GlobalTriggers(t) ==
    [m \in 1..12 |-> [p10 |-> Rat(t, 1), p25 |-> Rat(t, 1), p50 |-> Rat(t, 1),
                      p75 |-> Rat(t, 1), p90 |-> Rat(t, 1)]]

\* Trigger levels a, b, c for p10, p25, p50 in odd months and shifted by d in
\* even months.
TieredTriggers(a, b, c, d) ==
    [m \in 1..12 |->
        LET e == IF m % 2 = 1 THEN 0 ELSE d
        IN [p10 |-> Rat(a + e, 1), p25 |-> Rat(b + e, 1), p50 |-> Rat(c + e, 1),
            p75 |-> Rat(c + e, 1), p90 |-> Rat(c + e, 1)]]

\* Trigger levels handed to simulate_payouts that no call computed.
TriggerInputs ==
    {GlobalTriggers(t) : t \in (0 - 1)..MaxVal}
    \cup {TieredTriggers(0 - 1, 0, 1, d) : d \in {0, 1}}
    \cup {TieredTriggers(1, 0, 0 - 1, 0)}

PayoutStructures ==
    {[severe |-> 3, moderate |-> 2, mild |-> 1]}

\* Mutants of the chain: strict comparisons; the tiers tested from mild to
\* severe; the comparisons turned round.
PayoutStrict(rainfall, triggers, structure) ==
    IF Lt(Rat(rainfall, 1), triggers.p10) THEN structure.severe
    ELSE IF Lt(Rat(rainfall, 1), triggers.p25) THEN structure.moderate
    ELSE IF Lt(Rat(rainfall, 1), triggers.p50) THEN structure.mild
    ELSE 0

PayoutMildFirst(rainfall, triggers, structure) ==
    IF Le(Rat(rainfall, 1), triggers.p50) THEN structure.mild
    ELSE IF Le(Rat(rainfall, 1), triggers.p25) THEN structure.moderate
    ELSE IF Le(Rat(rainfall, 1), triggers.p10) THEN structure.severe
    ELSE 0

PayoutReversed(rainfall, triggers, structure) ==
    IF Le(triggers.p10, Rat(rainfall, 1)) THEN structure.severe
    ELSE IF Le(triggers.p25, Rat(rainfall, 1)) THEN structure.moderate
    ELSE IF Le(triggers.p50, Rat(rainfall, 1)) THEN structure.mild
    ELSE 0

\* The if / elif chain of one row.
Payout(rainfall, triggers, structure) ==
    IF Le(Rat(rainfall, 1), triggers.p10) THEN structure.severe
    ELSE IF Le(Rat(rainfall, 1), triggers.p25) THEN structure.moderate
    ELSE IF Le(Rat(rainfall, 1), triggers.p50) THEN structure.mild
    ELSE 0

\* Mutant: a mapping of the series and its total.
PayoutSeriesWithTotal(values, data) ==
    [fn |-> "simulate_payouts",
     index |-> [k \in 1..Len(data) |-> <<data[k].year, data[k].month>>],
     values |-> values,
     total_payout |-> SumSeq(values)]

\* pd.Series(payouts, index=rainfall_data.index)
PayoutSeries(values, data) ==
    [fn |-> "simulate_payouts",
     index |-> [k \in 1..Len(data) |-> <<data[k].year, data[k].month>>],
     values |-> values]

\* Called on the table with trigger levels given by the caller, or with the
\* ones calculate_trigger_levels has just returned for the table.
\* Mutant: the payouts list kept from the previous call instead of a new one.
simulate_payouts_begin_keeps_list ==
    /\ \/ pc = "idle"
       \/ pc = "done" /\ result.fn = "calculate_trigger_levels"
                      /\ raised = "none"
    /\ \E tl \in (IF pc = "idle" THEN TriggerInputs
                  ELSE {result.monthly_triggers}),
          ps \in PayoutStructures :
            /\ trigger_levels' = tl
            /\ payout_structure' = ps
    /\ pc' = "payout_loop"
    /\ idx' = 1
    /\ payouts' = payouts
    /\ result' = [fn |-> "none"]
    /\ UNCHANGED <<auxVars, tableVars, raised, droughtVars, onesVars, triggerVars>>

simulate_payouts_begin ==
    /\ \/ pc = "idle"
       \/ pc = "done" /\ result.fn = "calculate_trigger_levels"
                      /\ raised = "none"
    /\ \E tl \in (IF pc = "idle" THEN TriggerInputs
                  ELSE {result.monthly_triggers}),
          ps \in PayoutStructures :
            /\ trigger_levels' = tl
            /\ payout_structure' = ps
    /\ pc' = "payout_loop"
    /\ idx' = 1
    /\ payouts' = <<>>
    /\ result' = [fn |-> "none"]
    /\ UNCHANGED <<auxVars, tableVars, raised, droughtVars, onesVars, triggerVars>>

\* Mutant of the loop body: a row that pays nothing appends nothing.
simulate_payouts_iter_skips_zero ==
    /\ pc = "payout_loop"
    /\ idx <= Len(rainfall_data)
    /\ LET payout == Payout(rainfall_data[idx].rainfall_mm,
                            trigger_levels[rainfall_data[idx].month],
                            payout_structure)
       IN payouts' = IF payout = 0 THEN payouts ELSE Append(payouts, payout)
    /\ idx' = idx + 1
    /\ UNCHANGED <<auxVars, tableVars, pc, raised, result, droughtVars, onesVars,
                   triggerVars, trigger_levels, payout_structure>>

simulate_payouts_iter ==
    /\ pc = "payout_loop"
    /\ idx <= Len(rainfall_data)
    /\ payouts' = Append(payouts,
                         Payout(rainfall_data[idx].rainfall_mm,
                                trigger_levels[rainfall_data[idx].month],
                                payout_structure))
    /\ idx' = idx + 1
    /\ UNCHANGED <<auxVars, tableVars, pc, raised, result, droughtVars, onesVars,
                   triggerVars, trigger_levels, payout_structure>>

simulate_payouts_return ==
    /\ pc = "payout_loop"
    /\ idx > Len(rainfall_data)
    /\ pc' = "done"
    /\ raised' = "none"
    /\ result' = PayoutSeries(payouts, rainfall_data)
    /\ UNCHANGED <<auxVars, tableVars, idx, droughtVars, onesVars, insVars>>

NextIns ==
    \/ calculate_trigger_levels_begin
    \/ calculate_trigger_levels_iter
    \/ calculate_trigger_levels_return
    \/ simulate_payouts_begin
    \/ simulate_payouts_iter
    \/ simulate_payouts_return

SpecIns == Init /\ [][NextIns]_vars

----------------------------------------------------------------------------
(* Runs of dry months, stated on the whole sequence of flags *)

\* Is month k below 0.6 x the overall mean: value * 10 * n < 6 * sum.
DryFlags(data) ==
    [k \in 1..Len(data) |->
        10 * Len(data) * data[k].rainfall_mm < 6 * SumSeq(Values(data))]

\* Is month k strictly below the 25th percentile of the whole series.
BelowP25Flags(data) ==
    [k \in 1..Len(data) |->
        100 * data[k].rainfall_mm < Percentile(Values(data), 25).num]

AllDry(flags, a, b) == \A k \in a..b : flags[k]

\* The maximal runs of dry months among the first n months that a non-dry
\* month among the first n months ends, as <<first, last>>.
RunsEndedWithin(flags, n) ==
    {w \in (1..n) \X (1..n) :
        /\ w[1] <= w[2]
        /\ AllDry(flags, w[1], w[2])
        /\ (w[1] = 1 \/ ~flags[w[1] - 1])
        /\ w[2] < n
        /\ ~flags[w[2] + 1]}

\* The length of the longest run of dry months among the first n months.
LongestRun(flags, n) ==
    LET lens == {w[2] - w[1] + 1 : w \in {v \in (1..n) \X (1..n) :
                    v[1] <= v[2] /\ AllDry(flags, v[1], v[2])}}
    IN IF lens = {} THEN 0 ELSE CHOOSE x \in lens : \A y \in lens : y <= x

InDroughtRisk ==
    \/ pc = "drought_loop"
    \/ pc = "done" /\ result.fn = "calculate_drought_risk"

InMaxConsecutiveOnes ==
    \/ pc = "ones_loop"
    \/ pc = "done" /\ result.fn = "calculate_consecutive_dry_months"
                   /\ raised = "none"

AlternatingInputs == {MkSeries(Alternating(f)) : f \in {0, 100}}

----------------------------------------------------------------------------
(* Claims *)

\* C1: calculate_drought_risk scans the months in chronological order with
\* threshold 0.6 x overall mean; after any number of months, dry_spells holds,
\* in order and exactly once each, the lengths of the maximal runs of
\* below-threshold months that a non-dry month has ended, and a run still in
\* progress (at the end of the series too) is not in dry_spells.
C1_DrySpellsAreEndedRuns ==
    InDroughtRisk =>
        LET flags == DryFlags(rainfall_data)
            R == RunsEndedWithin(flags, idx - 1)
        IN /\ Len(dry_spells) = Cardinality(R)
           /\ \A r \in R :
                dry_spells[Cardinality({q \in R : q[1] <= r[1]})]
                    = r[2] - r[1] + 1

\* C1 witness: the scan has returned with a recorded spell and with a run
\* still in progress at the last month.
C1_Witness ==
    /\ pc = "done"
    /\ result.fn = "calculate_drought_risk"
    /\ raised = "none"
    /\ Len(dry_spells) >= 1
    /\ consecutive_dry > 0

\* C2: max_consecutive_dry equals the length of the longest run of consecutive
\* below-threshold months, a run still in progress at the last observation
\* included.
C2_MaxConsecutiveDryIsLongestRun ==
    (pc = "done" /\ result.fn = "calculate_drought_risk" /\ raised = "none") =>
        result.max_consecutive_dry
            = LongestRun(DryFlags(rainfall_data), Len(rainfall_data))

InSimulatePayouts ==
    \/ pc = "payout_loop"
    \/ pc = "done" /\ result.fn = "simulate_payouts"

ReturnedPayouts == pc = "done" /\ result.fn = "simulate_payouts"

InTriggerLevels ==
    \/ pc = "trigger_loop"
    \/ pc = "done" /\ result.fn = "calculate_trigger_levels"

\* value <= level for a level that is a number.
AtMost(value, level) == value * level.den <= level.num

PayoutAmounts(ps) == {ps.severe, ps.moderate, ps.mild, 0}

\* C3: every payout computed so far is, by the trigger levels of its row's
\* calendar month, severe if value <= p10, otherwise moderate if value <= p25,
\* otherwise mild if value <= p50, otherwise 0 (inclusive, in that order).
C3_PayoutTiers ==
    InSimulatePayouts =>
        /\ Len(payouts) = idx - 1
        /\ \A k \in 1..Len(payouts) :
             LET v == rainfall_data[k].rainfall_mm
                 t == trigger_levels[rainfall_data[k].month]
             IN /\ AtMost(v, t.p10) => payouts[k] = payout_structure.severe
                /\ (~AtMost(v, t.p10) /\ AtMost(v, t.p25))
                      => payouts[k] = payout_structure.moderate
                /\ (~AtMost(v, t.p10) /\ ~AtMost(v, t.p25) /\ AtMost(v, t.p50))
                      => payouts[k] = payout_structure.mild
                /\ (~AtMost(v, t.p10) /\ ~AtMost(v, t.p25) /\ ~AtMost(v, t.p50))
                      => payouts[k] = 0

\* C3 witness: a returned simulation in which all four outcomes occur, one of
\* them for a value equal to its month's p10 level, under trigger levels that
\* differ between months.
C3_Witness ==
    /\ ReturnedPayouts
    /\ {payouts[k] : k \in 1..Len(payouts)} = PayoutAmounts(payout_structure)
    /\ Cardinality(PayoutAmounts(payout_structure)) = 4
    /\ trigger_levels[1] # trigger_levels[2]
    /\ \E k \in 1..Len(payouts) :
         Eq(Rat(rainfall_data[k].rainfall_mm, 1),
            trigger_levels[rainfall_data[k].month].p10)

IsGlobal(tl, t) == tl = GlobalTriggers(t)

Shortfall(t, v) == IF t - v > 0 THEN t - v ELSE 0

TriggersBelowAllData ==
    \A m \in 1..12 : \A k \in 1..Len(rainfall_data) :
        /\ ~AtMost(rainfall_data[k].rainfall_mm, trigger_levels[m].p10)
        /\ ~AtMost(rainfall_data[k].rainfall_mm, trigger_levels[m].p25)
        /\ ~AtMost(rainfall_data[k].rainfall_mm, trigger_levels[m].p50)

\* C6: with trigger levels strictly below every observed value every payout is
\* 0 and no period has a nonzero payout (payout frequency 0).
C6_TriggersBelowDataPayNothing ==
    (InSimulatePayouts /\ TriggersBelowAllData) =>
        /\ \A k \in 1..Len(payouts) : payouts[k] = 0
        /\ Cardinality({k \in 1..Len(payouts) : payouts[k] # 0}) = 0

\* C6 witness: a returned simulation of several rows under nonnegative trigger
\* levels below all the data.
C6_Witness ==
    /\ ReturnedPayouts
    /\ TriggersBelowAllData
    /\ Len(payouts) >= 2
    /\ trigger_levels[1].p10.num >= 0

\* C7: the trigger levels computed for every month are ordered
\* p10 <= p25 <= p50 <= p75 <= p90.
C7_PercentilesMonotone ==
    InTriggerLevels =>
        \A m \in 1..Len(monthly_triggers) :
            LET t == monthly_triggers[m]
            IN /\ Le(t.p10, t.p25)
               /\ Le(t.p25, t.p50)
               /\ Le(t.p50, t.p75)
               /\ Le(t.p75, t.p90)

\* C7 witness: calculate_trigger_levels has returned and some month with
\* several observations has strictly increasing levels.
C7_Witness ==
    /\ pc = "done"
    /\ result.fn = "calculate_trigger_levels"
    /\ raised = "none"
    /\ \E m \in 1..12 :
        LET t == result.monthly_triggers[m]
        IN /\ Len(MonthValues(rainfall_data, {m})) >= 2
           /\ Lt(t.p10, t.p25)
           /\ Lt(t.p25, t.p50)
           /\ Lt(t.p50, t.p75)
           /\ Lt(t.p75, t.p90)

\* C8: on a series with observations, calculate_trigger_levels never raises;
\* it returns an entry for each of the months 1..12, and a month without
\* observations has NaN trigger levels.
C8_EmptyMonthYieldsNaN ==
    (pc = "done" /\ result.fn = "calculate_trigger_levels"
                /\ rainfall_data # <<>>) =>
        /\ raised = "none"
        /\ DOMAIN result.monthly_triggers = 1..12
        /\ \A m \in 1..12 :
             MonthValues(rainfall_data, {m}) = <<>> =>
                 /\ IsNaN(result.monthly_triggers[m].p10)
                 /\ IsNaN(result.monthly_triggers[m].p25)
                 /\ IsNaN(result.monthly_triggers[m].p50)
                 /\ IsNaN(result.monthly_triggers[m].p75)
                 /\ IsNaN(result.monthly_triggers[m].p90)

\* C9: max_consecutive_dry_months is the length of the longest run of months
\* strictly below the 25th percentile of the whole series, a run still in
\* progress at the last observation included; at every step of
\* max_consecutive_ones the maximum is the longest run of 1s seen so far.
C9_MaxConsecutiveOnesIsLongestRun ==
    InMaxConsecutiveOnes =>
        /\ binary_series =
              [k \in 1..Len(rainfall_data) |->
                  IF BelowP25Flags(rainfall_data)[k] THEN 1 ELSE 0]
        /\ ones_max_consecutive
              = LongestRun(BelowP25Flags(rainfall_data), idx - 1)
        /\ pc = "done" =>
              result.max_consecutive_dry_months
                  = LongestRun(BelowP25Flags(rainfall_data), Len(rainfall_data))

\* C9 witness: the call has returned and the longest run is the one still in
\* progress at the last observation, longer than every earlier run.
C9_Witness ==
    /\ pc = "done"
    /\ result.fn = "calculate_consecutive_dry_months"
    /\ raised = "none"
    /\ current_consecutive >= 2
    /\ result.max_consecutive_dry_months = current_consecutive
    /\ LongestRun(BelowP25Flags(rainfall_data),
                  Len(rainfall_data) - current_consecutive)
          < current_consecutive

\* C10: for 24 months alternating 100 and 0 (either first), the summary has
\* avg_monthly = 50, max_monthly = 100, min_monthly = 0, and the drought scan
\* has threshold 30, counts each of the twelve 0 months as dry and reports
\* max_consecutive_dry = 1.
C10_AlternatingScenario ==
    (rainfall_data \in AlternatingInputs /\ pc = "done") =>
        /\ result.fn = "get_summary_statistics" =>
              /\ Eq(result.avg_monthly, Rat(50, 1))
              /\ Eq(result.max_monthly, Rat(100, 1))
              /\ Eq(result.min_monthly, Rat(0, 1))
        /\ result.fn = "calculate_drought_risk" =>
              /\ Eq(drought_threshold, Rat(30, 1))
              /\ SumSeq(dry_spells) + consecutive_dry = 12
              /\ result.max_consecutive_dry = 1

\* C10 witness: the drought scan has returned on the alternating series that
\* ends with a 0 month.
C10_Witness ==
    /\ rainfall_data = MkSeries(Alternating(100))
    /\ pc = "done"
    /\ result.fn = "calculate_drought_risk"
    /\ result.max_consecutive_dry = 1
    /\ consecutive_dry = 1

\* C11: calculate_drought_risk returns as avg_dry_spell the mean length of the
\* recorded dry spells, exactly 0 when no spell was recorded, and as
\* dry_spell_frequency the number of recorded spells divided by the number of
\* months, times 12.
C11_AvgDrySpellAndFrequency ==
    (pc = "done" /\ result.fn = "calculate_drought_risk" /\ raised = "none") =>
        LET avg  == result.avg_dry_spell
            freq == result.dry_spell_frequency
        IN /\ (dry_spells = <<>> => avg = Rat(0, 1))
           /\ (dry_spells # <<>> =>
                 /\ avg.den > 0
                 /\ avg.num * Len(dry_spells) = SumSeq(dry_spells) * avg.den)
           /\ freq.den > 0
           /\ freq.num * Len(rainfall_data) = Len(dry_spells) * 12 * freq.den

\* C11 witness: the scan has returned from a series with dry months and
\* without a recorded spell.
C11_Witness ==
    /\ pc = "done"
    /\ result.fn = "calculate_drought_risk"
    /\ raised = "none"
    /\ dry_spells = <<>>
    /\ consecutive_dry > 0

\* C12: no analytics function modifies the table it is given: across every
\* step of a call the caller's table keeps the same columns and the same
\* values.
C12_InputTableUnchanged ==
    [][/\ rainfall_data' = rainfall_data
       /\ columns' = columns
       /\ season' = season]_vars

\* The bins of the season binning, month by month, January first.
BinLabels ==
    <<"Summer", "Summer", "Summer", "Autumn", "Autumn", "Autumn",
      "Winter", "Winter", "Winter", "Spring", "Spring", "Spring">>

\* Sum of the rainfall of the rows at the positions in S.
RECURSIVE RainfallOver(_, _)
RainfallOver(data, S) ==
    IF S = {} THEN 0
    ELSE LET k == CHOOSE x \in S : TRUE
         IN data[k].rainfall_mm + RainfallOver(data, S \ {k})

InSummaryStatistics ==
    pc = "done" /\ result.fn = "get_summary_statistics"

C20_SummaryOfValues ==
    (InSummaryStatistics /\ rainfall_data # <<>>) =>
        LET n  == Len(rainfall_data)
            v  == [k \in 1..n |-> rainfall_data[k].rainfall_mm]
            av == result.avg_monthly
            mx == result.max_monthly
            mn == result.min_monthly
        IN /\ av.den > 0
           /\ av.num * n = RainfallOver(rainfall_data, 1..n) * av.den
           /\ mx.den = 1 /\ \E k \in 1..n : v[k] = mx.num
           /\ \A k \in 1..n : v[k] <= mx.num
           /\ mn.den = 1 /\ \E k \in 1..n : v[k] = mn.num
           /\ \A k \in 1..n : mn.num <= v[k]
           /\ Le(mn, av) /\ Le(av, mx)
           /\ result.total_years
                 = Cardinality({y \in FirstYear..(FirstYear + 2) :
                                   \E k \in 1..n : rainfall_data[k].year = y})

\* C20 witness: the statistics of a series of two calendar years whose
\* minimum, mean and maximum differ.
C20_Witness ==
    /\ InSummaryStatistics
    /\ result.total_years = 2
    /\ Lt(result.min_monthly, result.avg_monthly)
    /\ Lt(result.avg_monthly, result.max_monthly)

----------------------------------------------------------------------------
(* Standard deviations.  A sample standard deviation is carried as its     *)
(* square, the sample variance, and a ratio std / mean as its square: the  *)
(* series are non-negative, so the square determines the value.            *)

\* Series.std() squared (ddof = 1): NaN with fewer than two values.
Variance(s) ==
    LET n == Len(s)
    IN IF n < 2 THEN NaN
       ELSE Rat(n * SumSeq([k \in 1..n |-> s[k] * s[k]])
                    - SumSeq(s) * SumSeq(s),
                n * (n - 1))

\* a / b on floats: 0 / 0 and every ratio with a NaN operand is NaN.
RatDiv(a, b) ==
    IF IsNaN(a) \/ IsNaN(b) THEN NaN
    ELSE IF a.num = 0 /\ b.num = 0 THEN NaN
    ELSE Rat(a.num * b.den, a.den * b.num)

RatSq(a) == Rat(a.num * a.num, a.den * a.den)

\* (std / mean) squared.
CoefficientVariation(s) == RatDiv(Variance(s), RatSq(Mean(s)))

----------------------------------------------------------------------------
(* climate_metrics.calculate_climate_metrics *)

\* (values < quantile(0.1)).mean() * 12 and (values > quantile(0.9)).mean() * 12
DryMonthsPerYear(s) ==
    LET q == Percentile(s, 10)
    IN Rat(12 * Cardinality({k \in 1..Len(s) : Lt(Rat(s[k], 1), q)}), Len(s))

WetMonthsPerYear(s) ==
    LET q == Percentile(s, 90)
    IN Rat(12 * Cardinality({k \in 1..Len(s) : Lt(q, Rat(s[k], 1))}), Len(s))

\* calculate_growing_season_rainfall, growing_months = [10, 11, 12, 1, 2, 3].
GrowingSeasonRainfall(data) ==
    [total        |-> SumSeq(MonthValues(data, {10, 11, 12, 1, 2, 3})),
     early_season |-> Mean(MonthValues(data, {10, 11})),
     mid_season   |-> Mean(MonthValues(data, {12, 1})),
     late_season  |-> Mean(MonthValues(data, {2, 3}))]

\* years = index.year - index.year[0]
TrendYears(data) == [k \in 1..Len(data) |-> data[k].year - data[1].year]

\* stats.linregress refuses two or more points whose x values are all the
\* same; a single point passes that test.
LinregressRefuses(x) ==
    Len(x) > 1 /\ \A k \in 1..Len(x) : x[k] = x[1]

\* slope = ssxym / ssxm (NaN for 0 / 0); r = ssxym / sqrt(ssxm * ssym), and 0
\* when that denominator is 0.
Linregress(x, y) ==
    LET n   == Len(x)
        sx  == SumSeq(x)
        sy  == SumSeq(y)
        sxy == SumSeq([k \in 1..n |-> x[k] * y[k]])
        sxx == SumSeq([k \in 1..n |-> x[k] * x[k]])
        syy == SumSeq([k \in 1..n |-> y[k] * y[k]])
        cxy == n * sxy - sx * sy
        cxx == n * sxx - sx * sx
        cyy == n * syy - sy * sy
    IN [slope     |-> Rat(cxy, cxx),
        r_squared |-> IF cxx * cyy = 0 THEN Rat(0, 1)
                      ELSE Rat(cxy * cxy, cxx * cyy)]

\* calculate_rainfall_trend, when linregress returns.
RainfallTrend(data) ==
    LET fit == Linregress(TrendYears(data), Values(data))
    IN [trend_mm_per_year |-> Rat(12 * fit.slope.num, fit.slope.den),
        r_squared         |-> fit.r_squared]

\* The for loop of calculate_drought_risk over the first k values (the
\* state after k - 1 values is bound before the body is applied to it).
RECURSIVE DroughtScan(_, _, _)
DroughtScan(values, k, st) ==
    IF k = 0 THEN st
    ELSE CHOOSE r \in {DroughtBody(values[k], p) :
                          p \in {DroughtScan(values, k - 1, st)}} : TRUE

DroughtRisk(data) ==
    LET st == DroughtScan(Values(data), Len(data),
                          [threshold |-> DroughtThreshold(data),
                           consecutive_dry |-> 0,
                           max_consecutive |-> 0,
                           dry_spells |-> <<>>])
    IN DroughtResult(st.max_consecutive, st.dry_spells, Len(data))

\* The returned mapping.  monthly_variability and coefficient_variation are
\* carried as squares.  seasonal_reliability, seasonal_predictability, the
\* growing season's reliability and the trend's significance are means of
\* square roots or a t-test probability, never raise, and are not carried.
ClimateMetrics(data) ==
    [fn |-> "calculate_climate_metrics",
     annual_average |-> Rat(12 * SumSeq(Values(data)), Len(data)),
     monthly_variability |-> Variance(Values(data)),
     coefficient_variation |-> CoefficientVariation(Values(data)),
     dry_months_per_year |-> DryMonthsPerYear(Values(data)),
     wet_months_per_year |-> WetMonthsPerYear(Values(data)),
     growing_season_rainfall |-> GrowingSeasonRainfall(data),
     rainfall_trend |-> RainfallTrend(data),
     drought_risk_score |-> DroughtRisk(data)]

\* The metrics are evaluated in the order of the mapping: on an empty table
\* index.year[0] raises IndexError, and when linregress refuses the years its
\* ValueError leaves the function.
calculate_climate_metrics ==
    /\ pc = "idle"
    /\ pc' = "done"
    /\ IF rainfall_data = <<>>
       THEN /\ raised' = "IndexError"
            /\ result' = [fn |-> "calculate_climate_metrics"]
       ELSE IF LinregressRefuses(TrendYears(rainfall_data))
       THEN /\ raised' = "ValueError"
            /\ result' = [fn |-> "calculate_climate_metrics"]
       ELSE /\ raised' = "none"
            /\ result' = ClimateMetrics(rainfall_data)
    /\ UNCHANGED <<auxVars, tableVars, idx, droughtVars, onesVars, insVars>>

----------------------------------------------------------------------------
(* app.show_location_analysis, on the table the loader returned *)

\* cv = std_monthly / stats['avg_monthly'] if stats['avg_monthly'] > 0 else 0
\* (squared); the test is false for a NaN average too.
LocationCv(data) ==
    IF Lt(Rat(0, 1), Mean(Values(data)))
    THEN RatDiv(Variance(Values(data)), RatSq(Mean(Values(data))))
    ELSE Rat(0, 1)

\* get_summary_statistics is called on the table, then cv and std_monthly
\* (squared) are added to its mapping.
show_location_analysis ==
    /\ pc = "idle"
    /\ pc' = "done"
    /\ raised' = "none"
    /\ result' = [fn |-> "show_location_analysis",
                  stats |-> SummaryStats(rainfall_data),
                  cv |-> LocationCv(rainfall_data),
                  std_monthly |-> Variance(Values(rainfall_data))]
    /\ columns' = columns \cup {"season"}
    /\ season' = SeasonColumn(rainfall_data)
    /\ UNCHANGED <<rainfall_data, idx, droughtVars, onesVars, insVars, auxVars>>

----------------------------------------------------------------------------
(* insurance_utils.calculate_risk_metrics and its helpers *)

\* window_years default of calculate_drought_frequency.
window_years == 5

\* The for loop of max_consecutive_ones over the first k values.
RECURSIVE OnesScan(_, _, _)
OnesScan(series, k, st) ==
    IF k = 0 THEN st
    ELSE CHOOSE r \in {OnesBody(series[k], p) :
                          p \in {OnesScan(series, k - 1, st)}} : TRUE

ConsecutiveDryMonths(data) ==
    OnesScan(DryMonths(data, 25), Len(data),
             [max_consecutive |-> 0, current_consecutive |-> 0]).max_consecutive

\* (values < threshold).rolling(window).sum().mean() / window: the rolling sum
\* exists from the window-th month on, and the mean of no sums is NaN.
\* Mutant: the rolling sums averaged over every month of the series, the
\* months before the first full window counted as 0.
DroughtFrequencyAllPositions(data, years) ==
    LET flags  == DryMonths(data, 25)
        window == years * 12
        n      == Len(data)
    IN Rat(SumSeq([k \in 1..n |->
                     IF k < window THEN 0
                     ELSE SumSeq([j \in 1..window |-> flags[k - window + j]])]),
           n * window)

DroughtFrequencyWindow(data, years) ==
    LET flags  == DryMonths(data, 25)
        window == years * 12
        n      == Len(data)
    IN IF n < window THEN NaN
       ELSE Rat(SumSeq([k \in 1..(n - window + 1) |->
                          SumSeq([j \in 1..window |-> flags[k + j - 1]])]),
                (n - window + 1) * window)

\* The default window of five years.
DroughtFrequency(data) == DroughtFrequencyWindow(data, window_years)

\* groupby('season')['rainfall_mm'].std(), squared, by the season column.
SeasonalVolatility(data) ==
    [s \in Seasons |-> Variance(SeasonGroup(data, SeasonColumn(data), s))]

\* The season column is assigned on the caller's table.
calculate_seasonal_volatility ==
    /\ pc = "idle"
    /\ pc' = "done"
    /\ raised' = "none"
    /\ result' = [fn |-> "calculate_seasonal_volatility",
                  seasonal_volatility |-> SeasonalVolatility(rainfall_data)]
    /\ columns' = columns \cup {"season"}
    /\ season' = SeasonColumn(rainfall_data)
    /\ UNCHANGED <<rainfall_data, idx, droughtVars, onesVars, insVars, auxVars>>

\* Mutant: the mean of the values strictly below var_95.
Cvar95StrictlyBelow(s) ==
    LET var == Percentile(s, 5)
    IN Mean(SelectSeq(s, LAMBDA x : Lt(Rat(x, 1), var)))

\* mean of the values <= var_95.
Cvar95(s) ==
    LET var == Percentile(s, 5)
    IN Mean(SelectSeq(s, LAMBDA x : Le(Rat(x, 1), var)))

\* The returned mapping of a non-empty table; volatility is carried as its
\* square, skewness and kurtosis are not carried.
RiskMetrics(data) ==
    [fn |-> "calculate_risk_metrics",
     volatility |-> Variance(Values(data)),
     var_95 |-> Percentile(Values(data), 5),
     cvar_95 |-> Cvar95(Values(data)),
     max_consecutive_dry_months |-> ConsecutiveDryMonths(data),
     drought_frequency |-> DroughtFrequency(data),
     seasonal_volatility |-> SeasonalVolatility(data)]

\* np.percentile raises IndexError on an empty table, before the season
\* column is assigned.
calculate_risk_metrics ==
    /\ pc = "idle"
    /\ pc' = "done"
    /\ IF rainfall_data = <<>>
       THEN /\ raised' = "IndexError"
            /\ result' = [fn |-> "calculate_risk_metrics"]
            /\ UNCHANGED <<columns, season>>
       ELSE /\ raised' = "none"
            /\ result' = RiskMetrics(rainfall_data)
            /\ columns' = columns \cup {"season"}
            /\ season' = SeasonColumn(rainfall_data)
    /\ UNCHANGED <<rainfall_data, idx, droughtVars, onesVars, insVars, auxVars>>

----------------------------------------------------------------------------
(* visualization_utils.plot_seasonal_comparison, for one of its two tables *)

get_season(m) ==
    IF m \in {12, 1, 2} THEN "Summer"
    ELSE IF m \in {3, 4, 5} THEN "Autumn"
    ELSE IF m \in {6, 7, 8} THEN "Winter"
    ELSE "Spring"

\* df1['season'] = df1.index.map(lambda x: get_season(x.month)), then the mean
\* of each season's rows is drawn.
plot_seasonal_comparison ==
    /\ pc = "idle"
    /\ pc' = "done"
    /\ raised' = "none"
    /\ LET col == [k \in 1..Len(rainfall_data) |->
                      get_season(rainfall_data[k].month)]
       IN /\ season' = col
          /\ result' = [fn |-> "plot_seasonal_comparison",
                        seasonal1 |-> [s \in Seasons |->
                            Mean(SeasonGroup(rainfall_data, col, s))]]
    /\ columns' = columns \cup {"season"}
    /\ UNCHANGED <<rainfall_data, idx, droughtVars, onesVars, insVars, auxVars>>

\* The calls that label the months of the table with seasons.
NextSeasons ==
    \/ get_summary_statistics
    \/ calculate_seasonal_volatility
    \/ plot_seasonal_comparison

SpecSeasons == Init /\ [][NextSeasons]_vars

\* The calls of the climate and underwriting metrics.
NextMetrics ==
    \/ get_summary_statistics
    \/ calculate_climate_metrics
    \/ calculate_risk_metrics
    \/ show_location_analysis

SpecMetrics == Init /\ [][NextMetrics]_vars

----------------------------------------------------------------------------
(* Claims on the metrics calls *)

SingleYear(data) == \A k \in 1..Len(data) : data[k].year = data[1].year

ReturnedFrom(name) == pc = "done" /\ result.fn = name

\* C15: on an empty monthly series get_summary_statistics and
\* calculate_climate_metrics end with an error and return no computed
\* defaults such as a year count of 0.
C15_EmptySeriesIsAnError ==
    (/\ rainfall_data = <<>>
     /\ \/ ReturnedFrom("get_summary_statistics")
        \/ ReturnedFrom("calculate_climate_metrics"))
    => raised # "none"

\* C16: when the series mean is 0, or the trend regression has a single data
\* point or a single distinct year, calculate_climate_metrics still returns:
\* the affected metric is NaN and no exception leaves the function.
C16_DegradesPerMetric ==
    (/\ ReturnedFrom("calculate_climate_metrics")
     /\ rainfall_data # <<>>
     /\ \/ SumSeq(Values(rainfall_data)) = 0
        \/ SingleYear(rainfall_data))
    => /\ raised = "none"
       /\ SumSeq(Values(rainfall_data)) = 0
             => IsNaN(result.coefficient_variation)
       /\ SingleYear(rainfall_data)
             => IsNaN(result.rainfall_trend.trend_mm_per_year)

\* C17: the coefficient of variation of calculate_climate_metrics and of
\* show_location_analysis is std / mean, and is NaN, never a substituted
\* number, when the mean of a non-empty series is 0.
C17_CoefficientOfVariation ==
    LET s   == Values(rainfall_data)
        std == Variance(s)
        Is(cv) ==
            IF SumSeq(s) = 0 \/ IsNaN(std) THEN IsNaN(cv)
            ELSE /\ cv.den > 0
                 /\ cv.num * std.den * SumSeq(s) * SumSeq(s)
                        = std.num * Len(s) * Len(s) * cv.den
    IN s # <<>> =>
          /\ (ReturnedFrom("calculate_climate_metrics") /\ raised = "none")
                => Is(result.coefficient_variation)
          /\ ReturnedFrom("show_location_analysis") => Is(result.cv)

\* C18: every place that labels a month with a season uses the same mapping:
\* the season column a call has assigned holds, for each row, the label of
\* the binning of get_summary_statistics and calculate_seasonal_volatility
\* and the label of get_season.
C18_OneSeasonMapping ==
    (pc = "done" /\ "season" \in columns) =>
        \A k \in 1..Len(rainfall_data) :
            /\ season[k] = SeasonBin(rainfall_data[k].month)
            /\ season[k] = get_season(rainfall_data[k].month)

----------------------------------------------------------------------------
(* climate_data_analysis.analyze_temperature *)

\* Bound of the model: days of each month that a daily table holds.
DaysPerMonth == 2

\* Last day of each month of a non-leap year: the label resample('M') gives
\* the row of a month.
MonthEnd ==
    <<31, 28, 31, 30, 31, 30, 31, 31, 30, 31, 30, 31>>

\* Daily maxima of the warm and of the cool months, in degrees Celsius; the
\* minimum lies 10 below the maximum, the mean 5 below, the dew point 12
\* below.
HotTemps == {29, 31, 36}
ColdTemps == {4, 12, 18}

TempRow(m, d, mx) ==
    [year |-> FirstYear, month |-> m, day |-> d,
     T2M |-> mx - 5, T2M_MAX |-> mx, T2M_MIN |-> mx - 10, T2MDEW |-> mx - 12]

WarmMonths == {10, 11, 12, 1, 2, 3}

\* The daily table of the first nm months, and the monthly table resampled
\* from it (the mean of equal values is that value).
DailyTable(nm, hot, cold) ==
    [k \in 1..(nm * DaysPerMonth) |->
        LET m == ((k - 1) \div DaysPerMonth) + 1
            d == ((k - 1) % DaysPerMonth) + 1
        IN TempRow(m, d, IF m \in WarmMonths THEN hot ELSE cold)]

MonthlyTable(nm, hot, cold) ==
    [m \in 1..nm |->
        TempRow(m, MonthEnd[m], IF m \in WarmMonths THEN hot ELSE cold)]

MonthsCovered == (0..MaxLen) \cup {12}

\* A table and the freq attribute of its index: a parsed daily index has
\* none or 'D', a resampled monthly index has 'M', and a monthly table
\* rebuilt by row selection, concatenation or a file read has none.
TempInputs ==
    {[df |-> DailyTable(nm, h, c), freq |-> f] :
        nm \in MonthsCovered, h \in HotTemps, c \in ColdTemps,
        f \in {"None", "D"}}
    \cup {[df |-> MonthlyTable(nm, h, c), freq |-> f] :
        nm \in MonthsCovered, h \in HotTemps, c \in ColdTemps,
        f \in {"None", "M"}}

Column(t, name) == [k \in 1..Len(t) |-> t[k][name]]

\* (column > x).sum() and (column < x).sum()
CountAbove(col, x) == Cardinality({k \in 1..Len(col) : col[k] > x})
CountBelow(col, x) == Cardinality({k \in 1..Len(col) : col[k] < x})

\* temp_data['stats']
TempStats(t) ==
    [mean_temp |-> Mean(Column(t, "T2M")),
     max_temp_ever |-> SeriesMax(Column(t, "T2M_MAX")),
     min_temp_ever |-> SeriesMin(Column(t, "T2M_MIN")),
     temp_range |-> SeriesMax(Column(t, "T2M_MAX")).num
                        - SeriesMin(Column(t, "T2M_MIN")).num,
     diurnal_range |-> Mean([k \in 1..Len(t) |->
                                t[k].T2M_MAX - t[k].T2M_MIN]),
     days_above_30 |-> CountAbove(Column(t, "T2M_MAX"), 30),
     days_below_0 |-> CountBelow(Column(t, "T2M_MIN"), 0),
     frost_risk_days |-> CountBelow(Column(t, "T2MDEW"), 0),
     avg_day_temp |-> Mean(Column(t, "T2M_MAX")),
     avg_night_temp |-> Mean(Column(t, "T2M_MIN")),
     extreme_hot_days |-> CountAbove(Column(t, "T2M_MAX"), 35),
     extreme_cold_nights |-> CountBelow(Column(t, "T2M_MIN"), 5)]

\* get_season of analyze_temperature.
analyze_temperature_get_season(m) ==
    IF m \in {12, 1, 2} THEN "Summer"
    ELSE IF m \in {3, 4, 5} THEN "Autumn"
    ELSE IF m \in {6, 7, 8} THEN "Winter"
    ELSE "Spring"

\* is_daily = df.index.freq != 'M'
IsDaily(freq) == freq # "M"

\* The twelve month names are drawn against the months the table covers:
\* plotting raises ValueError unless all twelve are present.
analyze_temperature ==
    /\ pc = "idle"
    /\ pc' = "done"
    /\ IF ~IsDaily(df_freq)
       THEN /\ raised' = "none"
            /\ result' = [fn |-> "analyze_temperature", returned |-> "None",
                          st_error |-> "Temperature analysis requires daily data"]
            /\ UNCHANGED df_season
       ELSE IF {df[k].month : k \in 1..Len(df)} # 1..12
       THEN /\ raised' = "ValueError"
            /\ result' = [fn |-> "analyze_temperature"]
            /\ UNCHANGED df_season
       ELSE /\ raised' = "none"
            /\ result' = [fn |-> "analyze_temperature", returned |-> "temp_data",
                          stats |-> TempStats(df)]
            /\ df_season' = [k \in 1..Len(df) |->
                                analyze_temperature_get_season(df[k].month)]
    /\ UNCHANGED <<tableVars, idx, droughtVars, onesVars, insVars, twiceVars,
                   gateVars,
                   df, df_freq>>

InitTemp ==
    /\ rainfall_data = <<>>
    /\ columns = {"rainfall_mm"}
    /\ season = <<>>
    /\ pc = "idle"
    /\ raised = "none"
    /\ result = [fn |-> "none"]
    /\ idx = 0
    /\ drought_threshold = NaN
    /\ consecutive_dry = 0
    /\ max_consecutive = 0
    /\ dry_spells = <<>>
    /\ binary_series = <<>>
    /\ ones_max_consecutive = 0
    /\ current_consecutive = 0
    /\ month = 0
    /\ monthly_triggers = <<>>
    /\ trigger_levels = <<>>
    /\ payout_structure = [severe |-> 0, moderate |-> 0, mild |-> 0]
    /\ payouts = <<>>
    /\ call_no = 1
    /\ first_result = [fn |-> "none"]
    /\ first_raised = "none"
    /\ \E t \in TempInputs : df = t.df /\ df_freq = t.freq
    /\ df_season = <<>>
    /\ session_state = [password_correct |-> "absent", password |-> "absent"]
    /\ secrets = [password |-> "alpha"]
    /\ run_pc = "new"
    /\ text_input_shown = FALSE
    /\ check_password_result = "none"
    /\ runs = 0

NextTemp == analyze_temperature

SpecTemp == InitTemp /\ [][NextTemp]_vars

\* A table is monthly when each row stands at the last day of its month.
IsMonthly(t) == \A k \in 1..Len(t) : t[k].day = MonthEnd[t[k].month]

\* C14: whenever analyze_temperature returns from a monthly table it has
\* rejected it, with the error report and no result, and it computes
\* temperature statistics only from a daily table.
C14_RejectsMonthlyInput ==
    (ReturnedFrom("analyze_temperature") /\ df # <<>> /\ raised = "none") =>
        /\ IsMonthly(df) => result.returned = "None"
        /\ result.returned = "temp_data" => ~IsMonthly(df)

----------------------------------------------------------------------------
(* A caller that calls one analytics function twice on the same table *)

\* The caller keeps what the first call returned and calls again; the table
\* is the object the first call was given, with what that call left on it.
call_again ==
    /\ pc = "done"
    /\ call_no = 1
    /\ call_no' = 2
    /\ first_result' = result
    /\ first_raised' = raised
    /\ pc' = "idle"
    /\ UNCHANGED <<tableVars, raised, result, idx, droughtVars, onesVars,
                   insVars, tempVars, gateVars>>

\* The repeat is a call of the same function.
StartOf(name) == call_no = 1 \/ first_result.fn = name

\* The repeat of simulate_payouts is given the same arguments.
SameArguments ==
    call_no = 2 => /\ trigger_levels' = trigger_levels
                   /\ payout_structure' = payout_structure

NextTwice ==
    \/ StartOf("get_summary_statistics") /\ get_summary_statistics
    \/ StartOf("calculate_climate_metrics") /\ calculate_climate_metrics
    \/ StartOf("calculate_risk_metrics") /\ calculate_risk_metrics
    \/ StartOf("calculate_trigger_levels") /\ calculate_trigger_levels_begin
    \/ calculate_trigger_levels_iter
    \/ calculate_trigger_levels_return
    \/ StartOf("simulate_payouts") /\ simulate_payouts_begin /\ SameArguments
    \/ simulate_payouts_iter
    \/ simulate_payouts_return
    \/ call_again

SpecTwice == Init /\ [][NextTwice]_vars

----------------------------------------------------------------------------
(* Claims on constant series, the risk metrics and the two drought scans *)

\* All the values of a non-empty series are the same number other than 0.
ConstantNonZero(data) ==
    /\ data # <<>>
    /\ data[1].rainfall_mm # 0
    /\ \A k \in 1..Len(data) : data[k].rainfall_mm = data[1].rainfall_mm

\* C21: for a monthly series whose values all equal a constant c other than
\* 0, calculate_climate_metrics returns with monthly_variability = 0,
\* coefficient_variation = 0, dry_months_per_year = 0 and
\* wet_months_per_year = 0.
C21_ConstantSeriesMetrics ==
    (ReturnedFrom("calculate_climate_metrics")
        /\ ConstantNonZero(rainfall_data)) =>
        /\ raised = "none"
        /\ Eq(result.monthly_variability, Rat(0, 1))
        /\ Eq(result.coefficient_variation, Rat(0, 1))
        /\ Eq(result.dry_months_per_year, Rat(0, 1))
        /\ Eq(result.wet_months_per_year, Rat(0, 1))

----------------------------------------------------------------------------
(* insurance_utils.calculate_drought_frequency called on its own *)

\* The windows a caller asks for: one year, and the default.
WindowYears == {1, window_years}

\* np.percentile raises IndexError on an empty table.
calculate_drought_frequency ==
    /\ pc = "idle"
    /\ pc' = "done"
    /\ \E years \in WindowYears :
          IF rainfall_data = <<>>
          THEN /\ raised' = "IndexError"
               /\ result' = [fn |-> "calculate_drought_frequency"]
          ELSE /\ raised' = "none"
               /\ result' = [fn |-> "calculate_drought_frequency",
                             window_years |-> years,
                             drought_frequency |->
                                 DroughtFrequencyWindow(rainfall_data, years)]
    /\ UNCHANGED <<auxVars, tableVars, idx, droughtVars, onesVars, insVars>>

\* The underwriting calls.
NextRisk ==
    \/ calculate_drought_frequency
    \/ calculate_risk_metrics

SpecRisk == Init /\ [][NextRisk]_vars

\* C23: calculate_drought_frequency counts, in every full window of
\* window_years * 12 consecutive months, the months strictly below the 25th
\* percentile of the whole series, averages the counts over the full windows
\* only and divides by the window length, so the result lies in [0, 1]; a
\* series shorter than one window gives NaN, not 0.
C23_DroughtFrequency ==
    (ReturnedFrom("calculate_drought_frequency") /\ raised = "none") =>
        LET n      == Len(rainfall_data)
            window == result.window_years * 12
            below  == BelowP25Flags(rainfall_data)
            f      == result.drought_frequency
            counted == {w \in (window..n) \X (1..n) :
                           /\ w[1] - window < w[2] /\ w[2] <= w[1]
                           /\ below[w[2]]}
        IN IF n < window THEN IsNaN(f)
           ELSE /\ f.den > 0
                /\ f.num * (n - window + 1) * window
                      = Cardinality(counted) * f.den
                /\ 0 <= f.num /\ f.num <= f.den

\* C23 witness: a frequency above 0 over more than one full window.
C23_Witness ==
    /\ ReturnedFrom("calculate_drought_frequency")
    /\ raised = "none"
    /\ Len(rainfall_data) > result.window_years * 12
    /\ result.drought_frequency.num > 0

\* C24: calculate_risk_metrics returns as var_95 the 5th percentile of the
\* series and as cvar_95 the mean of all values <= var_95; on a non-empty
\* series the minimum is among them, so cvar_95 is a number and
\* min(series) <= cvar_95 <= var_95.
C24_VarAndCvar ==
    (ReturnedFrom("calculate_risk_metrics") /\ rainfall_data # <<>>) =>
        LET s    == Values(rainfall_data)
            var  == result.var_95
            cvar == result.cvar_95
            tail == {k \in 1..Len(s) : 100 * s[k] <= var.num}
        IN /\ raised = "none"
           /\ var = Percentile(s, 5) /\ var.den = 100
           /\ \E k \in tail : \A j \in 1..Len(s) : s[k] <= s[j]
           /\ cvar.den > 0
           /\ cvar.num * Cardinality(tail)
                 = RainfallOver(rainfall_data, tail) * cvar.den
           /\ Le(SeriesMin(s), cvar)
           /\ Le(cvar, var)

\* C24 witness: risk metrics of a series of more than a year whose var_95 is
\* interpolated above its minimum, so that cvar_95 lies strictly below var_95.
C24_Witness ==
    /\ ReturnedFrom("calculate_risk_metrics")
    /\ raised = "none"
    /\ Len(rainfall_data) > 12
    /\ Lt(result.cvar_95, result.var_95)

----------------------------------------------------------------------------
(* max_consecutive_ones called on the flags of the drought-risk scan *)

\* After the drought-risk scan has ended, the caller hands
\* max_consecutive_ones the same months as a binary series: 1 where the value
\* is below the drought threshold.
max_consecutive_ones ==
    /\ pc = "done"
    /\ result.fn = "calculate_drought_risk"
    /\ LET series == [k \in 1..Len(rainfall_data) |->
                        IF Lt(Rat(rainfall_data[k].rainfall_mm, 1),
                              drought_threshold) THEN 1 ELSE 0]
           st == OnesScan(series, Len(series),
                          [max_consecutive |-> 0, current_consecutive |-> 0])
       IN /\ binary_series' = series
          /\ ones_max_consecutive' = st.max_consecutive
          /\ current_consecutive' = st.current_consecutive
          /\ result' = [fn |-> "max_consecutive_ones",
                        max_consecutive |-> st.max_consecutive]
    /\ raised' = "none"
    /\ UNCHANGED <<auxVars, tableVars, pc, idx, droughtVars, insVars>>

NextScans ==
    \/ calculate_drought_risk_begin
    \/ calculate_drought_risk_iter
    \/ calculate_drought_risk_return
    \/ max_consecutive_ones

SpecScans == Init /\ [][NextScans]_vars

\* C25: on the same dry flags the drought-risk scan never reports a larger
\* maximum run than max_consecutive_ones, the two are equal whenever the last
\* month is not dry, and they differ only by the run in progress at the end.
C25_ScansAgreeButForTrailingRun ==
    ReturnedFrom("max_consecutive_ones") =>
        LET n == Len(rainfall_data)
        IN /\ max_consecutive <= result.max_consecutive
           /\ (n > 0 /\ binary_series[n] = 0)
                 => max_consecutive = result.max_consecutive
           /\ result.max_consecutive = MaxOf(max_consecutive, consecutive_dry)
           /\ result.max_consecutive = LongestRun(DryFlags(rainfall_data), n)

\* C25 witness: both scans have run over a series that ends in a dry run
\* longer than every ended spell, and the two maxima differ.
C25_Witness ==
    /\ ReturnedFrom("max_consecutive_ones")
    /\ consecutive_dry > 0
    /\ max_consecutive < result.max_consecutive

\* C26: at every step of the calculate_drought_risk scan the recorded spell
\* lengths plus the run in progress add up to the number of dry months seen
\* so far, every recorded spell is at least 1 long, and max_consecutive is the
\* largest recorded spell (0 when none is recorded).
C26_ScanInvariant ==
    InDroughtRisk =>
        LET flags == DryFlags(rainfall_data)
        IN /\ SumSeq(dry_spells) + consecutive_dry
                 = Cardinality({k \in 1..(idx - 1) : flags[k]})
           /\ \A k \in 1..Len(dry_spells) : dry_spells[k] >= 1
           /\ IF dry_spells = <<>> THEN max_consecutive = 0
              ELSE /\ \E k \in 1..Len(dry_spells) :
                         dry_spells[k] = max_consecutive
                   /\ \A k \in 1..Len(dry_spells) :
                         dry_spells[k] <= max_consecutive

\* C26 witness: the scan is in the middle of the series with a spell
\* recorded and another run in progress.
C26_Witness ==
    /\ pc = "drought_loop"
    /\ idx <= Len(rainfall_data)
    /\ dry_spells # <<>>
    /\ consecutive_dry > 0

Constant(data) ==
    /\ data # <<>>
    /\ \A k \in 1..Len(data) : data[k].rainfall_mm = data[1].rainfall_mm

\* C27: both scans take a month for dry only when its value is strictly below
\* the threshold, so a month at the threshold is not dry and a constant
\* series, all zeros included, has no dry month: max_consecutive_dry = 0, no
\* dry spell, and max_consecutive_dry_months = 0.
C27_StrictlyBelowThreshold ==
    /\ (InDroughtRisk /\ idx > 1 /\ idx - 1 <= Len(rainfall_data)
          /\ ~Lt(Rat(rainfall_data[idx - 1].rainfall_mm, 1), drought_threshold))
          => consecutive_dry = 0
    /\ (ReturnedFrom("calculate_drought_risk") /\ Constant(rainfall_data))
          => /\ result.max_consecutive_dry = 0
             /\ dry_spells = <<>>
             /\ consecutive_dry = 0
    /\ InMaxConsecutiveOnes =>
          \A k \in 1..Len(binary_series) :
              binary_series[k] = 1 <=> BelowP25Flags(rainfall_data)[k]
    /\ (ReturnedFrom("calculate_consecutive_dry_months")
          /\ Constant(rainfall_data))
          => result.max_consecutive_dry_months = 0

\* C27 witness: the drought-risk scan has returned from a series of more than
\* one month that are all 0, each exactly at the threshold 0.
C27_Witness ==
    /\ ReturnedFrom("calculate_drought_risk")
    /\ Len(rainfall_data) > 1
    /\ \A k \in 1..Len(rainfall_data) : rainfall_data[k].rainfall_mm = 0

W1 == /\ ReturnedFrom("max_consecutive_ones") /\ max_consecutive < result.max_consecutive
W2 == /\ ReturnedFrom("max_consecutive_ones") /\ dry_spells # <<>> /\ consecutive_dry > 0
W3 == pc = "drought_loop" /\ dry_spells # <<>> /\ consecutive_dry > 0
W4 == pc = "drought_loop" /\ Len(dry_spells) > 1
W5 == pc = "drought_loop" /\ idx <= Len(rainfall_data) /\ dry_spells # <<>> /\ max_consecutive > 1


\* The tier an amount of the payout structure stands for: 3 severe,
\* 2 moderate, 1 mild, 0 no payout (the amounts of the structure are distinct).
Severity(amount, ps) ==
    IF amount = ps.severe THEN 3
    ELSE IF amount = ps.moderate THEN 2
    ELSE IF amount = ps.mild THEN 1
    ELSE 0

\* C28: simulate_payouts returns exactly one payout per observation, indexed
\* by the timestamps of the input in input order, each payout one of the three
\* configured amounts or 0; where a month's triggers satisfy
\* p10 <= p25 <= p50, of two observations of that calendar month the one with
\* the lower rainfall never gets a less severe tier.
C28_OnePayoutPerObservation ==
    /\ InSimulatePayouts =>
          /\ Len(payouts) = idx - 1
          /\ \A k \in 1..Len(payouts) :
                payouts[k] \in PayoutAmounts(payout_structure)
          /\ \A i, j \in 1..Len(payouts) :
                LET t == trigger_levels[rainfall_data[i].month]
                IN (/\ rainfall_data[i].month = rainfall_data[j].month
                    /\ Le(t.p10, t.p25) /\ Le(t.p25, t.p50)
                    /\ rainfall_data[i].rainfall_mm
                          <= rainfall_data[j].rainfall_mm)
                   => Severity(payouts[i], payout_structure)
                         >= Severity(payouts[j], payout_structure)
    /\ ReturnedPayouts =>
          /\ Len(result.values) = Len(rainfall_data)
          /\ Len(result.index) = Len(rainfall_data)
          /\ result.values = payouts
          /\ \A k \in 1..Len(rainfall_data) :
                result.index[k]
                   = <<rainfall_data[k].year, rainfall_data[k].month>>

\* C28 witness: a returned series in which two observations of one calendar
\* month, under ordered triggers, got different tiers, and some row paid 0.
C28_Witness ==
    /\ ReturnedPayouts
    /\ \E k \in 1..Len(payouts) : payouts[k] = 0
    /\ \E i, j \in 1..Len(payouts) :
          LET t == trigger_levels[rainfall_data[i].month]
          IN /\ i # j
             /\ rainfall_data[i].month = rainfall_data[j].month
             /\ Le(t.p10, t.p25) /\ Le(t.p25, t.p50)
             /\ rainfall_data[i].rainfall_mm < rainfall_data[j].rainfall_mm
             /\ payouts[i] > payouts[j]


----------------------------------------------------------------------------
(* app.py, the climate-risk flow behind the "Analyze Climate Risk" button *)

\* What get_nasa_power_data returns when some parameter arrived: the daily
\* table, whose parsed index has no freq, and the monthly table resampled
\* from it.
NasaDaily ==
    {[df |-> DailyTable(nm, h, c), freq |-> "None"] :
        nm \in MonthsCovered, h \in HotTemps, c \in ColdTemps}

\* monthly_df = get_monthly_rainfall_analysis(clim_lat, clim_lon): None after
\* the loader wrote its message, or the monthly table. The if has no else.
analyze_climate_risk_fetch ==
    /\ pc = "idle"
    /\ \/ /\ pc' = "run_completed"
          /\ result' = [fn |-> "analyze_climate_risk", monthly_df |-> "None",
                        shown |-> "loader message"]
       \/ /\ pc' = "flow_metrics"
          /\ result' = [fn |-> "analyze_climate_risk", monthly_df |-> "table"]
    /\ UNCHANGED <<auxVars, tableVars, raised, idx, droughtVars, onesVars,
                   insVars>>

\* metrics = calculate_climate_metrics(monthly_df), called outside any try:
\* what it raises leaves the script run.
analyze_climate_risk_metrics ==
    /\ pc = "flow_metrics"
    /\ IF rainfall_data = <<>>
       THEN /\ raised' = "IndexError"
            /\ pc' = "run_aborted"
            /\ UNCHANGED result
       ELSE IF LinregressRefuses(TrendYears(rainfall_data))
       THEN /\ raised' = "ValueError"
            /\ pc' = "run_aborted"
            /\ UNCHANGED result
       ELSE /\ raised' = "none"
            /\ pc' = "flow_nasa"
            /\ result' = ClimateMetrics(rainfall_data)
    /\ UNCHANGED <<auxVars, tableVars, idx, droughtVars, onesVars, insVars>>

\* daily_df, climate_df = get_nasa_power_data(clim_lat, clim_lon): the
\* function returns the single value None when no parameter arrived, and
\* unpacking None into two names raises TypeError.
analyze_climate_risk_nasa ==
    /\ pc = "flow_nasa"
    /\ \/ /\ raised' = "TypeError"
          /\ pc' = "run_aborted"
          /\ UNCHANGED <<df, df_freq>>
       \/ \E t \in NasaDaily :
             /\ df' = t.df
             /\ df_freq' = t.freq
             /\ raised' = "none"
             /\ pc' = "flow_temperature"
    /\ UNCHANGED <<tableVars, result, idx, droughtVars, onesVars, insVars,
                   twiceVars, gateVars, df_season>>

\* temp_analysis = analyze_temperature(daily_df), called outside any try.
analyze_climate_risk_temperature ==
    /\ pc = "flow_temperature"
    /\ IF ~IsDaily(df_freq)
       THEN /\ raised' = "none"
            /\ pc' = "run_completed"
            /\ result' = [fn |-> "analyze_climate_risk", monthly_df |-> "table",
                          shown |-> "Temperature analysis requires daily data"]
            /\ UNCHANGED df_season
       ELSE IF {df[k].month : k \in 1..Len(df)} # 1..12
       THEN /\ raised' = "ValueError"
            /\ pc' = "run_aborted"
            /\ UNCHANGED <<result, df_season>>
       ELSE /\ raised' = "none"
            /\ pc' = "run_completed"
            /\ result' = [fn |-> "analyze_climate_risk", monthly_df |-> "table",
                          shown |-> "temperature analysis"]
            /\ df_season' = [k \in 1..Len(df) |->
                                analyze_temperature_get_season(df[k].month)]
    /\ UNCHANGED <<tableVars, idx, droughtVars, onesVars, insVars, twiceVars,
                   gateVars,
                   df, df_freq>>

NextFlow ==
    \/ analyze_climate_risk_fetch
    \/ analyze_climate_risk_metrics
    \/ analyze_climate_risk_nasa
    \/ analyze_climate_risk_temperature

SpecFlow == Init /\ [][NextFlow]_vars

\* C22: in the climate-risk flow no failure aborts the script run: when a
\* fetch yields None or an analytics call raises, the caller shows something
\* else and the run goes on to its end.
C22_NoFailureAbortsTheRun ==
    /\ pc # "run_aborted"
    /\ pc \in {"flow_metrics", "flow_nasa", "flow_temperature", "run_completed"}
          => raised = "none"


----------------------------------------------------------------------------
(* app.py, the password gate at the top of the script *)

\* Script runs of one session.
MaxRuns == 4

\* Passwords that are configured or typed.
Passwords == {"alpha", "beta", "gamma", "delta"}

workVars == <<tableVars, callVars, droughtVars, onesVars, insVars, twiceVars,
              tempVars>>

\* A new session: session_state is empty and the script runs for the first
\* time.
session_start ==
    /\ run_pc = "new"
    /\ run_pc' = "check_password"
    /\ runs' = 1
    /\ UNCHANGED <<workVars, session_state, secrets, text_input_shown,
                   check_password_result>>

\* check_password(): while session_state has no password_correct the
\* text_input is drawn (its value under the key password, "" at first) and
\* False is returned; otherwise nothing is drawn and
\* session_state["password_correct"] is returned.
check_password ==
    /\ run_pc = "check_password"
    /\ IF session_state.password_correct = "absent"
       THEN /\ text_input_shown' = TRUE
            /\ session_state' = [session_state EXCEPT
                                    !.password = IF @ = "absent" THEN "" ELSE @]
            /\ check_password_result' = "False"
       ELSE /\ text_input_shown' = FALSE
            /\ check_password_result' = session_state.password_correct
            /\ UNCHANGED session_state
    /\ run_pc' = "gate"
    /\ UNCHANGED <<workVars, secrets, runs>>

\* Mutant: a session without password_correct is let through.
password_gate_open_by_default ==
    /\ run_pc = "gate"
    /\ run_pc' = IF check_password_result = "True"
                    \/ session_state.password_correct = "absent"
                 THEN "body" ELSE "stopped"
    /\ UNCHANGED <<workVars, session_state, secrets, text_input_shown,
                   check_password_result, runs>>

\* if not check_password(): st.stop()
password_gate ==
    /\ run_pc = "gate"
    /\ run_pc' = IF check_password_result = "True" THEN "body" ELSE "stopped"
    /\ UNCHANGED <<workVars, session_state, secrets, text_input_shown,
                   check_password_result, runs>>

\* The rest of the script: page setup, tabs, data fetches, analytics.
dashboard_body ==
    /\ run_pc = "body"
    /\ run_pc' = "displayed"
    /\ UNCHANGED <<workVars, session_state, secrets, text_input_shown,
                   check_password_result, runs>>

\* The user changes a widget of the dashboard: the script runs again.
dashboard_rerun ==
    /\ run_pc = "displayed"
    /\ runs < MaxRuns
    /\ run_pc' = "check_password"
    /\ runs' = runs + 1
    /\ UNCHANGED <<workVars, session_state, secrets, text_input_shown,
                   check_password_result>>

\* The user changes the value of the text_input on the page: the value is
\* stored under its key and the on_change callback is called before the
\* script runs again.
enter_password ==
    /\ run_pc = "stopped"
    /\ text_input_shown
    /\ \E p \in Passwords \ {session_state.password} :
          session_state' = [session_state EXCEPT !.password = p]
    /\ run_pc' = "callback"
    /\ UNCHANGED <<workVars, secrets, text_input_shown, check_password_result,
                   runs>>

\* password_entered(), then the rerun.
password_entered ==
    /\ run_pc = "callback"
    /\ session_state' = [session_state EXCEPT !.password_correct =
                            IF session_state.password = secrets.password
                            THEN "True" ELSE "False"]
    /\ run_pc' = "check_password"
    /\ runs' = runs + 1
    /\ UNCHANGED <<workVars, secrets, text_input_shown, check_password_result>>

InitGate ==
    /\ rainfall_data = <<>>
    /\ columns = {"rainfall_mm"}
    /\ season = <<>>
    /\ pc = "idle"
    /\ raised = "none"
    /\ result = [fn |-> "none"]
    /\ idx = 0
    /\ drought_threshold = NaN
    /\ consecutive_dry = 0
    /\ max_consecutive = 0
    /\ dry_spells = <<>>
    /\ binary_series = <<>>
    /\ ones_max_consecutive = 0
    /\ current_consecutive = 0
    /\ month = 0
    /\ monthly_triggers = <<>>
    /\ trigger_levels = <<>>
    /\ payout_structure = [severe |-> 0, moderate |-> 0, mild |-> 0]
    /\ payouts = <<>>
    /\ call_no = 1
    /\ first_result = [fn |-> "none"]
    /\ first_raised = "none"
    /\ df = <<>>
    /\ df_freq = "None"
    /\ df_season = <<>>
    /\ session_state = [password_correct |-> "absent", password |-> "absent"]
    /\ secrets \in [password : Passwords]
    /\ run_pc = "new"
    /\ text_input_shown = FALSE
    /\ check_password_result = "none"
    /\ runs = 0

NextGate ==
    \/ session_start
    \/ check_password
    \/ password_gate
    \/ dashboard_body
    \/ dashboard_rerun
    \/ enter_password
    \/ password_entered

SpecGate == InitGate /\ [][NextGate]_vars

\* A script run that has begun goes on to its end; a user who is offered the
\* password input again and again does enter the configured password.
SpecGateFair ==
    /\ SpecGate
    /\ WF_vars(session_start)
    /\ WF_vars(check_password)
    /\ WF_vars(password_gate)
    /\ WF_vars(dashboard_body)
    /\ WF_vars(password_entered)
    /\ SF_vars(enter_password /\ session_state'.password = secrets.password)

\* C29: in any sequence of script runs of a session the dashboard body is
\* entered only from a gate check at which session_state['password_correct']
\* is True, and password_correct becomes True only in password_entered, with
\* the entered password equal to the configured secret.
C29_BodyOnlyBehindCorrectPassword ==
    [][/\ (run_pc' = "body" /\ run_pc # "body")
            => /\ run_pc = "gate"
               /\ session_state.password_correct = "True"
       /\ (run_pc' = "displayed" /\ run_pc # "displayed") => run_pc = "body"
       /\ (session_state'.password_correct = "True"
             /\ session_state.password_correct # "True")
            => /\ run_pc = "callback"
               /\ session_state.password = secrets.password]_vars

\* C29 witness: the dashboard body runs again in a later run of a session in
\* which the configured password was entered.
C29_Witness ==
    /\ run_pc = "body"
    /\ runs > 2
    /\ session_state.password = secrets.password

====
